---- MODULE Spec2Model ----
(***************************************************************************)
(* GayBerneForceImpl (openmmapi/src/GayBerneForceImpl.cpp): the glue       *)
(* between a GayBerneForce description ("owner"), the System it belongs to *)
(* and the platform's CalcGayBerneForceKernel.                             *)
(*                                                                         *)
(* Real-valued parameters are integers counted in a fixed unit (half a     *)
(* nanometre for the lengths): only their order matters to the code.       *)
(* Particle indices are the code's, 0-based; the TLA+ sequences holding    *)
(* the particles and exceptions are 1-based, so particle i is              *)
(* particles[i+1].                                                         *)
(***************************************************************************)
EXTENDS Integers, Sequences, FiniteSets, TLC

VARIABLES
    owner,      \* the GayBerneForce the impl was constructed for (const GayBerneForce& owner)
    system,     \* context.getSystem(): particle count and default periodic box vectors
    kernel,     \* the Kernel member: NoKernel (default-constructed) or a handle id
    ready,      \* whether the held kernel's initialize() has returned normally
    created,    \* number of handles Platform::createKernel has returned so far (also the last handle id)
    events,     \* the calls the last operation made on its collaborators, in order
    last,       \* the last operation called on the impl, its arguments and how it ended
    edits       \* number of changes the caller has made to owner/system

vars == <<owner, system, kernel, ready, created, events, last, edits>>

---------------------------------------------------------------------------
(* Bounds of the model *)

NumParticles == 2     \* particles of the System (and of the initial description)
MaxEdits == 2         \* caller's changes to the description, validation runs
MaxMutations == 1     \* caller's changes to the description, lifecycle runs
MaxSetups == 2        \* calls of initialize() in one run

---------------------------------------------------------------------------
(* The description and the System *)

NoKernel == 0

NoCutoff == "NoCutoff"
CutoffNonPeriodic == "CutoffNonPeriodic"
CutoffPeriodic == "CutoffPeriodic"

GoodParticle ==
    [sigma |-> 1, epsilon |-> 1, xparticle |-> -1, yparticle |-> -1,
     rx |-> 1, ry |-> 1, rz |-> 1, ex |-> 1, ey |-> 1, ez |-> 1]

BaseOwner ==
    [particles |-> [i \in 1..NumParticles |-> GoodParticle],
     exceptions |-> <<>>,
     nonbondedMethod |-> NoCutoff,
     cutoffDistance |-> 2,
     useSwitchingFunction |-> FALSE,
     switchingDistance |-> -1,
     forceGroup |-> 0]

BaseSystem ==
    [numParticles |-> NumParticles,
     box |-> << <<4, 0, 0>>, <<0, 4, 0>>, <<0, 0, 4>> >>]

(* a second valid description: periodic cutoff at exactly half the box,   *)
(* switching on, one exception                                            *)
PeriodicOwner ==
    [BaseOwner EXCEPT !.nonbondedMethod = CutoffPeriodic,
                      !.useSwitchingFunction = TRUE,
                      !.switchingDistance = 1,
                      !.exceptions = <<[particle |-> <<0, 1>>, sigma |-> 1, epsilon |-> 1]>>]

getNumParticles(o) == Len(o.particles)
getNumExceptions(o) == Len(o.exceptions)

---------------------------------------------------------------------------
(* Validation: the checks of initialize(), in the order the code makes     *)
(* them.  A failed check is the exception's message: the text followed by  *)
(* the values the code streams into it.  NoError: every check passed.      *)

NoError == <<>>

CheckParticleCount(o, s) ==
    IF getNumParticles(o) # s.numParticles
    THEN <<"GayBerneForce must have exactly as many particles as the System it belongs to.">>
    ELSE NoError

(* faulty variant: the switching distance is checked even when switching is off *)
CheckSwitchingAlways(o) ==
    IF o.switchingDistance < 0 \/ o.switchingDistance >= o.cutoffDistance
    THEN <<"GayBerneForce: Switching distance must satisfy 0 <= r_switch < r_cutoff">>
    ELSE NoError

CheckSwitching(o) ==
    IF o.useSwitchingFunction
       /\ (o.switchingDistance < 0 \/ o.switchingDistance >= o.cutoffDistance)
    THEN <<"GayBerneForce: Switching distance must satisfy 0 <= r_switch < r_cutoff">>
    ELSE NoError

(* faulty variant: epsilon of a particle is checked before its sigma *)
CheckParticleEpsilonFirst(o, i) ==
    LET p == o.particles[i + 1]
        n == getNumParticles(o)
    IN  IF p.xparticle < -1 \/ p.xparticle >= n
        THEN <<"GayBerneForce: Illegal particle index for xparticle: ", p.xparticle>>
        ELSE IF p.yparticle < -1 \/ p.yparticle >= n
        THEN <<"GayBerneForce: Illegal particle index for a yparticle: ", p.yparticle>>
        ELSE IF p.epsilon < 0
        THEN <<"GayBerneForce: epsilon for a particle cannot be negative">>
        ELSE IF p.sigma < 0
        THEN <<"GayBerneForce: sigma for a particle cannot be negative">>
        ELSE IF p.rx <= 0 \/ p.ry <= 0 \/ p.rz <= 0
        THEN <<"GayBerneForce: radii for a particle must be positive">>
        ELSE IF p.ex <= 0 \/ p.ey <= 0 \/ p.ez <= 0
        THEN <<"GayBerneForce: scale factors for a particle must be positive">>
        ELSE NoError

CheckParticle(o, i) ==
    LET p == o.particles[i + 1]
        n == getNumParticles(o)
    IN  IF p.xparticle < -1 \/ p.xparticle >= n
        THEN <<"GayBerneForce: Illegal particle index for xparticle: ", p.xparticle>>
        ELSE IF p.yparticle < -1 \/ p.yparticle >= n
        THEN <<"GayBerneForce: Illegal particle index for a yparticle: ", p.yparticle>>
        ELSE IF p.sigma < 0
        THEN <<"GayBerneForce: sigma for a particle cannot be negative">>
        ELSE IF p.epsilon < 0
        THEN <<"GayBerneForce: epsilon for a particle cannot be negative">>
        ELSE IF p.rx <= 0 \/ p.ry <= 0 \/ p.rz <= 0
        THEN <<"GayBerneForce: radii for a particle must be positive">>
        ELSE IF p.ex <= 0 \/ p.ey <= 0 \/ p.ez <= 0
        THEN <<"GayBerneForce: scale factors for a particle must be positive">>
        ELSE NoError

RECURSIVE CheckParticles(_, _)
CheckParticles(o, i) ==
    IF i >= getNumParticles(o) THEN NoError
    ELSE LET err == CheckParticle(o, i)
         IN  IF err # NoError THEN err ELSE CheckParticles(o, i + 1)

(* for (j = 0; j < 2; j++): the first of particle[0], particle[1] out of range *)
CheckExceptionIndices(o, e) ==
    LET n == getNumParticles(o)
    IN  IF e.particle[1] < 0 \/ e.particle[1] >= n
        THEN <<"GayBerneForce: Illegal particle index for an exception: ", e.particle[1]>>
        ELSE IF e.particle[2] < 0 \/ e.particle[2] >= n
        THEN <<"GayBerneForce: Illegal particle index for an exception: ", e.particle[2]>>
        ELSE NoError

(* exceptions[particle[0]].count(particle[1]) > 0 || exceptions[particle[1]].count(particle[0]) > 0 *)
IsDuplicate(seen, p0, p1) ==
    p1 \in seen[p0] \/ p0 \in seen[p1]

(* faulty variant: the checked exception is never recorded *)
InsertExceptionForgotten(seen, p0, p1) == seen

(* exceptions[particle[0]].insert(particle[1]); exceptions[particle[1]].insert(particle[0]); *)
InsertException(seen, p0, p1) ==
    LET one == [seen EXCEPT ![p0] = @ \cup {p1}]
    IN  [one EXCEPT ![p1] = @ \cup {p0}]

(* faulty variant: epsilon of an exception is checked before its sigma *)
CheckExceptionEpsilonFirst(o, i, seen) ==
    LET e == o.exceptions[i + 1]
        idx == CheckExceptionIndices(o, e)
    IN  IF idx # NoError THEN idx
        ELSE IF IsDuplicate(seen, e.particle[1], e.particle[2])
        THEN <<"GayBerneForce: Multiple exceptions are specified for particles ",
               e.particle[1], " and ", e.particle[2]>>
        ELSE IF e.epsilon < 0
        THEN <<"GayBerneForce: epsilon for an exception cannot be negative">>
        ELSE IF e.sigma < 0
        THEN <<"GayBerneForce: sigma for an exception cannot be negative">>
        ELSE NoError

CheckException(o, i, seen) ==
    LET e == o.exceptions[i + 1]
        idx == CheckExceptionIndices(o, e)
    IN  IF idx # NoError THEN idx
        ELSE IF IsDuplicate(seen, e.particle[1], e.particle[2])
        THEN <<"GayBerneForce: Multiple exceptions are specified for particles ",
               e.particle[1], " and ", e.particle[2]>>
        ELSE IF e.sigma < 0
        THEN <<"GayBerneForce: sigma for an exception cannot be negative">>
        ELSE IF e.epsilon < 0
        THEN <<"GayBerneForce: epsilon for an exception cannot be negative">>
        ELSE NoError

(* faulty variant: the loop over the exceptions starts at 1 *)
RECURSIVE CheckExceptionsFromSecond(_, _, _)
CheckExceptionsFromSecond(o, i, seen) ==
    IF i >= getNumExceptions(o) THEN NoError
    ELSE IF i = 0 THEN CheckExceptionsFromSecond(o, 1, seen)
    ELSE LET err == CheckException(o, i, seen)
             e == o.exceptions[i + 1]
         IN  IF err # NoError THEN err
             ELSE CheckExceptionsFromSecond(o, i + 1,
                      InsertException(seen, e.particle[1], e.particle[2]))

RECURSIVE CheckExceptions(_, _, _)
CheckExceptions(o, i, seen) ==
    IF i >= getNumExceptions(o) THEN NoError
    ELSE LET err == CheckException(o, i, seen)
             e == o.exceptions[i + 1]
         IN  IF err # NoError THEN err
             ELSE CheckExceptions(o, i + 1,
                                  InsertException(seen, e.particle[1], e.particle[2]))

(* faulty variant: only the first box vector is compared *)
CheckCutoffFirstVectorOnly(o, s) ==
    IF o.nonbondedMethod = CutoffPeriodic /\ 2 * o.cutoffDistance > s.box[1][1]
    THEN <<"GayBerneForce: <Messages::cutoffTooLarge>">>
    ELSE NoError

(* cutoff > 0.5*box[k][k] is decided as 2*cutoff > box[k][k]: halving and *)
(* doubling are exact in binary floating point.                           *)
CheckCutoff(o, s) ==
    IF o.nonbondedMethod = CutoffPeriodic
       /\ (\/ 2 * o.cutoffDistance > s.box[1][1]
           \/ 2 * o.cutoffDistance > s.box[2][2]
           \/ 2 * o.cutoffDistance > s.box[3][3])
    THEN <<"GayBerneForce: <Messages::cutoffTooLarge>">>
    ELSE NoError

(* faulty variant: the particles are checked before the switching distance *)
ValidateParticlesFirst(o, s) ==
    LET count == CheckParticleCount(o, s)
        switch == CheckSwitching(o)
        parts == CheckParticles(o, 0)
        excs == CheckExceptions(o, 0, [k \in 0..(getNumParticles(o) - 1) |-> {}])
    IN  IF count # NoError THEN count
        ELSE IF parts # NoError THEN parts
        ELSE IF switch # NoError THEN switch
        ELSE IF excs # NoError THEN excs
        ELSE CheckCutoff(o, s)

Validate(o, s) ==
    LET count == CheckParticleCount(o, s)
        switch == CheckSwitching(o)
        parts == CheckParticles(o, 0)
        excs == CheckExceptions(o, 0, [k \in 0..(getNumParticles(o) - 1) |-> {}])
    IN  IF count # NoError THEN count
        ELSE IF switch # NoError THEN switch
        ELSE IF parts # NoError THEN parts
        ELSE IF excs # NoError THEN excs
        ELSE CheckCutoff(o, s)

---------------------------------------------------------------------------
(* 32-bit int arithmetic of (groups & (1 << owner.getForceGroup())) != 0.  *)
(* An int is a value of MinInt32..MaxInt32 in two's complement.            *)

MinInt32 == (-1073741824) - 1073741824
MaxInt32 == 1073741823 + 1073741824

(* the low 31 bits of x, as a natural number *)
Low31(x) == IF x < 0 THEN (x + 1073741824) + 1073741824 ELSE x

(* faulty variant: the group index is used as the mask *)
ShiftLeftOneAsIndex(n) == n

(* 1 << n for n in 0..31: bit n alone; bit 31 alone is the most negative int *)
ShiftLeftOne(n) == IF n = 31 THEN MinInt32 ELSE 2 ^ n

(* the bitwise and of two naturals below 2^31, bit by bit from the lowest *)
RECURSIVE AndLow(_, _)
AndLow(a, b) ==
    IF a = 0 \/ b = 0 THEN 0
    ELSE (a % 2) * (b % 2) + 2 * AndLow(a \div 2, b \div 2)

(* a & b: the sign bit is set when both sign bits are *)
BitAnd(a, b) ==
    IF a < 0 /\ b < 0
    THEN (AndLow(Low31(a), Low31(b)) - 1073741824) - 1073741824
    ELSE AndLow(Low31(a), Low31(b))

(* (groups&(1<<owner.getForceGroup())) != 0 *)
GroupSelected(o, groups) == BitAnd(groups, ShiftLeftOne(o.forceGroup)) # 0

---------------------------------------------------------------------------
(* What the caller may do to the description and the System between calls *)

(* one setParticleParameters call changing one field of particle p as it   *)
(* is now: repeated calls leave a particle with several bad fields         *)
ParticleEdits(p, n) ==
    {[p EXCEPT !.xparticle = v] : v \in {-2, 0, n}}
    \cup {[p EXCEPT !.yparticle = v] : v \in {-2, n}}
    \cup {[p EXCEPT !.sigma = v] : v \in {-1, 0}}
    \cup {[p EXCEPT !.epsilon = v] : v \in {-1, 0}}
    \cup {[p EXCEPT !.rx = 0], [p EXCEPT !.ry = -1], [p EXCEPT !.rz = 0]}
    \cup {[p EXCEPT !.ex = 0], [p EXCEPT !.ey = -1], [p EXCEPT !.ez = 0]}

(* the exceptions addException may add.  With good values: every pair of  *)
(* particles, and pairs whose first index, second index or both are below  *)
(* or above the range.  With sigma, epsilon or both negative: a pair in    *)
(* either orientation, and pairs whose first or second index is out of     *)
(* range as well.                                                          *)
ExceptionMenu(n) ==
    {[particle |-> <<a, b>>, sigma |-> 1, epsilon |-> 1] : a \in 0..(n - 1), b \in 0..(n - 1)}
    \cup {[particle |-> pr, sigma |-> 1, epsilon |-> 1] :
             pr \in {<<-1, 0>>, <<n, 0>>, <<0, -1>>, <<0, n>>, <<-1, n>>}}
    \cup {[particle |-> pr, sigma |-> se[1], epsilon |-> se[2]] :
             pr \in {<<0, 1>>, <<1, 0>>}, se \in {<<-1, 1>>, <<1, -1>>, <<-1, -1>>}}
    \cup {[particle |-> <<0, 1>>, sigma |-> 0, epsilon |-> 0]}
    \cup {[particle |-> pr, sigma |-> se[1], epsilon |-> se[2]] :
             pr \in {<<-1, 0>>, <<0, n>>}, se \in {<<-1, 1>>, <<1, -1>>}}

OwnerEdits(o) ==
    UNION {{[o EXCEPT !.particles[i] = p] :
               p \in ParticleEdits(o.particles[i], Len(o.particles))} :
           i \in 1..Len(o.particles)}
    \cup {[o EXCEPT !.particles = Append(@, GoodParticle)]}
    \cup {[o EXCEPT !.exceptions = Append(@, e)] : e \in ExceptionMenu(Len(o.particles))}
    \cup {[o EXCEPT !.useSwitchingFunction = TRUE]}
    \cup {[o EXCEPT !.switchingDistance = v] : v \in {0, 1, 2}}
    \cup {[o EXCEPT !.cutoffDistance = v] : v \in {1, 3}}
    \cup {[o EXCEPT !.nonbondedMethod = m] : m \in {CutoffNonPeriodic, CutoffPeriodic}}

SystemEdits(s) ==
    {[s EXCEPT !.box[k][k] = 2] : k \in 1..3}
    \cup {[s EXCEPT !.box = << <<6, 0, 0>>, <<0, 6, 0>>, <<0, 0, 6>> >>]}
    \cup {[s EXCEPT !.box[2][1] = 1]}

---------------------------------------------------------------------------
(* The impl *)

NoCall ==
    [op |-> "none", outcome |-> "none", error |-> NoError, energy |-> 0,
     includeForces |-> FALSE, includeEnergy |-> FALSE, groups |-> 0]

(* kernel.getAs<CalcGayBerneForceKernel>() on the default-constructed      *)
(* Kernel: the dynamic_cast to a reference fails and throws                *)
BadCast == <<"std::bad_cast">>

(* Platform::createKernel throwing: the platform has no factory for the    *)
(* kernel name.  The exception leaves initialize() before the assignment   *)
(* to the member is made.                                                  *)
CreateKernelError ==
    <<"Called createKernel() on a Platform which does not support the requested kernel">>

(* the exception of a kernel call that throws: its text is the backend's *)
KernelError == <<"CalcGayBerneForceKernel threw">>

KernelEnergies == {-3, 5}

(* what a kernel call can do: return (execute: an energy) or throw *)
KernelReports ==
    {[threw |-> FALSE, energy |-> e] : e \in KernelEnergies}
    \cup {[threw |-> TRUE, energy |-> 0]}

(* GayBerneForceImpl(owner): no kernel yet *)
Init ==
    /\ owner \in {BaseOwner, PeriodicOwner}
    /\ system = BaseSystem
    /\ kernel = NoKernel
    /\ ready = FALSE
    /\ created = 0
    /\ events = <<>>
    /\ last = NoCall
    /\ edits = 0

(* the caller changes the description or the System *)
EditStep(limit) ==
    /\ edits < limit
    /\ \/ \E o \in OwnerEdits(owner) : owner' = o /\ system' = system
       \/ \E s \in SystemEdits(system) : system' = s /\ owner' = owner
    /\ edits' = edits + 1
    /\ events' = <<>>
    /\ last' = NoCall
    /\ UNCHANGED <<kernel, ready, created>>

(* Force::setForceGroup, which accepts 0..31 *)
SetForceGroup ==
    /\ \E g \in 0..31 : owner' = [owner EXCEPT !.forceGroup = g]
    /\ events' = <<>>
    /\ last' = NoCall
    /\ UNCHANGED <<system, kernel, ready, created, edits>>

(* faulty variant: the kernel is created only once the checks have passed *)
initializeChecksFirst ==
    /\ LET k == created + 1
           err == Validate(owner, system)
       IN  IF err # NoError
           THEN /\ UNCHANGED <<kernel, ready, created>>
                /\ events' = <<>>
                /\ last' = [NoCall EXCEPT !.op = "initialize", !.outcome = "threw",
                                          !.error = err]
           ELSE \/ /\ UNCHANGED <<kernel, ready, created>>
                   /\ events' = << <<"createKernel", NoKernel>> >>
                   /\ last' = [NoCall EXCEPT !.op = "initialize", !.outcome = "threw",
                                             !.error = CreateKernelError]
                \/ \E r \in {"returned", "threw"} :
                   /\ created' = k
                   /\ kernel' = k
                   /\ ready' = (r = "returned")
                   /\ events' = << <<"createKernel", k>>, <<"initialize", k>> >>
                   /\ last' = [NoCall EXCEPT !.op = "initialize", !.outcome = r,
                                  !.error = IF r = "threw" THEN KernelError ELSE NoError]
    /\ UNCHANGED <<owner, system, edits>>

(* initialize(context): createKernel first, then the checks, then the      *)
(* kernel's initialize.  createKernel either throws, and then nothing is   *)
(* assigned, checked or called (the event records that no handle came      *)
(* back), or returns the handle that replaces the member; a later          *)
(* exception leaves the member holding it.                                 *)
initialize ==
    /\ \/ /\ UNCHANGED <<kernel, ready, created>>
          /\ events' = << <<"createKernel", NoKernel>> >>
          /\ last' = [NoCall EXCEPT !.op = "initialize", !.outcome = "threw",
                                    !.error = CreateKernelError]
       \/ LET k == created + 1
              err == Validate(owner, system)
          IN  /\ created' = k
              /\ kernel' = k
              /\ IF err # NoError
                 THEN /\ ready' = FALSE
                      /\ events' = << <<"createKernel", k>> >>
                      /\ last' = [NoCall EXCEPT !.op = "initialize", !.outcome = "threw",
                                                !.error = err]
                 ELSE \E r \in {"returned", "threw"} :
                      /\ ready' = (r = "returned")
                      /\ events' = << <<"createKernel", k>>, <<"initialize", k>> >>
                      /\ last' = [NoCall EXCEPT !.op = "initialize", !.outcome = r,
                                     !.error = IF r = "threw" THEN KernelError ELSE NoError]
    /\ UNCHANGED <<owner, system, edits>>

(* calcForcesAndEnergy(context, includeForces, includeEnergy, groups);     *)
(* report is what the kernel's execute does if it is called (the event    *)
(* records it).  Without a kernel, getAs throws std::bad_cast before any   *)
(* call is made and the impl is left as it was.                            *)
calcForcesAndEnergy(includeForces, includeEnergy, groups, report) ==
    /\ LET call == [NoCall EXCEPT !.op = "calcForcesAndEnergy",
                                  !.includeForces = includeForces,
                                  !.includeEnergy = includeEnergy,
                                  !.groups = groups]
       IN  IF GroupSelected(owner, groups)
           THEN IF kernel = NoKernel
                THEN /\ events' = <<>>
                     /\ last' = [call EXCEPT !.outcome = "threw", !.error = BadCast]
                ELSE /\ events' = << <<"execute", kernel, includeForces, includeEnergy, report>> >>
                     /\ last' = IF report.threw
                                THEN [call EXCEPT !.outcome = "threw", !.error = KernelError]
                                ELSE [call EXCEPT !.outcome = "returned",
                                                  !.energy = report.energy]
           ELSE /\ events' = <<>>
                /\ last' = [call EXCEPT !.outcome = "returned", !.energy = 0]
    /\ UNCHANGED <<owner, system, kernel, ready, created, edits>>

(* faulty variant: the description is validated before the kernel is told *)
updateValidatesFirst ==
    /\ LET call == [NoCall EXCEPT !.op = "updateParametersInContext"]
           err == Validate(owner, system)
       IN  IF kernel = NoKernel
           THEN /\ events' = <<>>
                /\ last' = [call EXCEPT !.outcome = "threw", !.error = BadCast]
           ELSE IF err # NoError
           THEN /\ events' = <<>>
                /\ last' = [call EXCEPT !.outcome = "threw", !.error = err]
           ELSE \E r \in {"returned", "threw"} :
                IF r = "threw"
                THEN /\ events' = << <<"copyParametersToContext", kernel>> >>
                     /\ last' = [call EXCEPT !.outcome = "threw", !.error = KernelError]
                ELSE /\ events' = << <<"copyParametersToContext", kernel>>,
                                     <<"systemChanged", kernel>> >>
                     /\ last' = [call EXCEPT !.outcome = "returned"]
    /\ UNCHANGED <<owner, system, kernel, ready, created, edits>>

(* faulty variant: the context is notified before the kernel is told *)
updateNotifiesFirst ==
    /\ LET call == [NoCall EXCEPT !.op = "updateParametersInContext"]
       IN  IF kernel = NoKernel
           THEN /\ events' = <<>>
                /\ last' = [call EXCEPT !.outcome = "threw", !.error = BadCast]
           ELSE \E r \in {"returned", "threw"} :
                /\ events' = << <<"systemChanged", kernel>>,
                                <<"copyParametersToContext", kernel>> >>
                /\ last' = IF r = "threw"
                           THEN [call EXCEPT !.outcome = "threw", !.error = KernelError]
                           ELSE [call EXCEPT !.outcome = "returned"]
    /\ UNCHANGED <<owner, system, kernel, ready, created, edits>>

(* faulty variant: the update asks the platform for a new kernel *)
updateRecreatesKernel ==
    /\ created < MaxSetups
    /\ LET call == [NoCall EXCEPT !.op = "updateParametersInContext"]
           k == created + 1
       IN  /\ created' = k
           /\ kernel' = k
           /\ ready' = FALSE
           /\ events' = << <<"createKernel", k>>, <<"copyParametersToContext", k>>,
                           <<"systemChanged", k>> >>
           /\ last' = [call EXCEPT !.outcome = "returned"]
    /\ UNCHANGED <<owner, system, edits>>

(* updateParametersInContext(context); without a kernel, getAs throws      *)
(* std::bad_cast before anything is called                                 *)
updateParametersInContext ==
    /\ LET call == [NoCall EXCEPT !.op = "updateParametersInContext"]
       IN  IF kernel = NoKernel
           THEN /\ events' = <<>>
                /\ last' = [call EXCEPT !.outcome = "threw", !.error = BadCast]
           ELSE \E r \in {"returned", "threw"} :
                IF r = "threw"
                THEN /\ events' = << <<"copyParametersToContext", kernel>> >>
                     /\ last' = [call EXCEPT !.outcome = "threw", !.error = KernelError]
                ELSE /\ events' = << <<"copyParametersToContext", kernel>>,
                                     <<"systemChanged", kernel>> >>
                     /\ last' = [call EXCEPT !.outcome = "returned"]
    /\ UNCHANGED <<owner, system, kernel, ready, created, edits>>

---------------------------------------------------------------------------
(* Specifications *)

(* groups arguments of the lifecycle runs: no group, every group *)
LifecycleMasks == {0, -1}

(* the impl's life: the description changes, the three operations are called *)
Next ==
    \/ EditStep(MaxMutations)
    \/ (created < MaxSetups /\ initialize)
    \/ \E g \in LifecycleMasks, r \in KernelReports :
           calcForcesAndEnergy(TRUE, TRUE, g, r)
    \/ updateParametersInContext

Spec == Init /\ [][Next]_vars

(* validation: descriptions up to MaxEdits changes away, set up until the  *)
(* platform returns a kernel                                               *)
NextValidate ==
    \/ (created = 0 /\ EditStep(MaxEdits))
    \/ (created = 0 /\ initialize)

SpecValidate == Init /\ [][NextValidate]_vars

GroupMasks == {0, 1, 5, -2, -1, MinInt32, MaxInt32}

(* group gating: every force group, masks with and without its bit *)
NextEvaluate ==
    \/ SetForceGroup
    \/ (created = 0 /\ initialize)
    \/ \E f \in BOOLEAN, e \in BOOLEAN, g \in GroupMasks, r \in KernelReports :
           calcForcesAndEnergy(f, e, g, r)

InitEvaluate == Init /\ owner = BaseOwner

SpecEvaluate == InitEvaluate /\ [][NextEvaluate]_vars

---------------------------------------------------------------------------
(* Properties of the lifecycle *)

(* Bound: a kernel is held and its initialize() has returned *)
Bound == kernel # NoKernel /\ ready

SetupFailed == last.op = "initialize" /\ last.outcome = "threw"

HasEvent(name) == \E i \in DOMAIN events : events[i][1] = name

(* createKernel returned a handle during the last operation *)
HandleObtained ==
    \E i \in DOMAIN events : events[i][1] = "createKernel" /\ events[i][2] # NoKernel

(* the last operation was a setup that got as far as the checks *)
Validated == last.op = "initialize" /\ last.error # CreateKernelError

(* C1, as stated: when setup fails because a check fails or because the   *)
(* kernel's initialize fails, no kernel handle has been obtained from the  *)
(* factory and the dispatcher holds none.                                  *)
C1_FailedSetupHoldsNoKernel ==
    (SetupFailed /\ last.error # CreateKernelError)
        => (kernel = NoKernel /\ ~HandleObtained)

(* C1, amended: when setup fails because a check fails or because the      *)
(* kernel's initialize fails, a new kernel handle has already been         *)
(* obtained (createKernel is the first call made) and the dispatcher holds *)
(* it in place of whatever it held, but the dispatcher is not Bound: after *)
(* a failed check the kernel's initialize was never invoked, and after a   *)
(* failure of the kernel's initialize it was invoked once and did not      *)
(* complete.  Only when the factory itself fails is no handle obtained:    *)
(* then nothing is checked or called and the dispatcher keeps what it      *)
(* held, Bound if it was Bound.                                            *)
C1_FailedSetupHoldsUninitializedKernel ==
    [][(last'.op = "initialize" /\ last'.outcome = "threw") =>
          IF last'.error = CreateKernelError
          THEN /\ events' = << <<"createKernel", NoKernel>> >>
               /\ UNCHANGED <<kernel, ready, created>>
          ELSE /\ ~Bound'
               /\ created' = created + 1
               /\ kernel' = created'
               /\ kernel' # NoKernel
               /\ IF last'.error = KernelError
                  THEN events' = << <<"createKernel", kernel'>>, <<"initialize", kernel'>> >>
                  ELSE /\ last'.error = Validate(owner, system)
                       /\ events' = << <<"createKernel", kernel'>> >>]_vars

C1_Witness ==
    /\ SetupFailed
    /\ last.error = Validate(owner, system)
    /\ kernel # NoKernel
    /\ ~HasEvent("initialize")

(* C2, as stated: applyUpdate on a Bound dispatcher fails with setup's     *)
(* violation for every description setup would reject, without calling    *)
(* the kernel's refreshParameters or notifying the context.                *)
C2_UpdateRevalidates ==
    (Bound /\ last.op = "updateParametersInContext" /\ Validate(owner, system) # NoError)
        => (last.outcome = "threw" /\ last.error = Validate(owner, system) /\ events = <<>>)

(* C2, amended: applyUpdate makes no check of the description.  On a       *)
(* dispatcher holding a kernel, whatever the description, the kernel's     *)
(* refreshParameters is invoked exactly once, first; the context is        *)
(* notified once after it when it returns, and not at all when it throws,  *)
(* the only way the update fails.                                          *)
C2_UpdateDoesNotValidate ==
    (last.op = "updateParametersInContext" /\ kernel # NoKernel) =>
        IF last.outcome = "returned"
        THEN events = << <<"copyParametersToContext", kernel>>, <<"systemChanged", kernel>> >>
        ELSE /\ last.outcome = "threw"
             /\ last.error = KernelError
             /\ events = << <<"copyParametersToContext", kernel>> >>

C2_Witness ==
    /\ Bound
    /\ last.op = "updateParametersInContext"
    /\ Validate(owner, system) # NoError
    /\ last.outcome = "returned"
    /\ HasEvent("systemChanged")

(* C3: a successful applyUpdate on a Bound dispatcher leaves it Bound with *)
(* the same kernel handle, and makes exactly two calls: the kernel's       *)
(* refreshParameters, then the context's change notification.              *)
C3_UpdatePreservesBinding ==
    [][(Bound /\ updateParametersInContext /\ last'.outcome = "returned")
          => /\ Bound'
             /\ kernel' = kernel
             /\ created' = created
             /\ events' = << <<"copyParametersToContext", kernel>>,
                             <<"systemChanged", kernel>> >>]_vars

C3_Witness ==
    /\ Bound
    /\ edits > 0
    /\ Validate(owner, system) = NoError
    /\ last.op = "updateParametersInContext"
    /\ last.outcome = "returned"
    /\ Len(events) = 2

(* C9, as stated, for the calls the documented states allow (setup on a    *)
(* dispatcher that is not Bound): the kernel handle is created at most     *)
(* once, so a step that creates one is the first to do so.                 *)
C9_KernelCreatedAtMostOnce ==
    [][(~Bound /\ created' # created) => created = 0]_vars

(* C9, amended: only setup creates or replaces the kernel handle, and      *)
(* every call of setup that the factory gives a handle does, whatever the  *)
(* state: evaluate and applyUpdate (and the caller's changes to the        *)
(* description) leave the handle held, the number of handles created and   *)
(* Bound as they are, while each setup obtains one new handle that         *)
(* replaces the one held, unless the factory fails, which changes nothing. *)
C9_OnlySetupCreatesKernels ==
    [][/\ (kernel' # kernel \/ created' # created \/ ready' # ready)
             => /\ last'.op = "initialize"
                /\ last'.error # CreateKernelError
                /\ created' = created + 1
                /\ kernel' = created'
       /\ initialize =>
             IF last'.error = CreateKernelError
             THEN UNCHANGED <<kernel, ready, created>>
             ELSE created' = created + 1 /\ kernel' = created']_vars

C9_Witness ==
    /\ created = 2
    /\ kernel = 2
    /\ Bound
    /\ last.op \in {"updateParametersInContext", "calcForcesAndEnergy"}
    /\ last.outcome = "returned"
    /\ events # <<>>

---------------------------------------------------------------------------
(* Group gating *)

(* bit i of the 32-bit int x, read off its two's complement digits *)
BitIsSet(x, i) ==
    IF i = 31 THEN x < 0 ELSE (Low31(x) \div (2 ^ i)) % 2 = 1

(* C4: evaluate calls the kernel's execute if and only if bit forceGroup   *)
(* of the mask is set.  Bit clear: it returns 0 and calls nothing, with or *)
(* without a kernel.  Bit set, kernel held: one execute call with the      *)
(* caller's two flags, and the energy returned is the one execute          *)
(* reported (its exception, if it threw).  Bit set before any setup: no    *)
(* kernel to call, std::bad_cast.                                          *)
C4_GroupGating ==
    last.op = "calcForcesAndEnergy" =>
        IF BitIsSet(last.groups, owner.forceGroup)
        THEN IF kernel = NoKernel
             THEN events = <<>> /\ last.outcome = "threw" /\ last.error = BadCast
             ELSE
               /\ Len(events) = 1
               /\ events[1][1] = "execute"
               /\ events[1][2] = kernel
               /\ events[1][3] = last.includeForces
               /\ events[1][4] = last.includeEnergy
               /\ IF events[1][5].threw
                  THEN last.outcome = "threw"
                  ELSE last.outcome = "returned" /\ last.energy = events[1][5].energy
        ELSE events = <<>> /\ last.outcome = "returned" /\ last.energy = 0

C4_Witness ==
    /\ last.op = "calcForcesAndEnergy"
    /\ owner.forceGroup = 31
    /\ last.groups = MinInt32
    /\ last.includeForces /\ ~last.includeEnergy
    /\ HasEvent("execute")
    /\ last.outcome = "returned"
    /\ last.energy = -3

---------------------------------------------------------------------------
(* Validation, stated apart from the code: every check that a description *)
(* fails, ranked <<stage, index, check>> in the documented order.          *)
(* Validation is lines 55-120: it runs in every setup that createKernel    *)
(* returns to (Validated).                                                 *)

Min3(a, b, c) ==
    IF a <= b /\ a <= c THEN a ELSE IF b <= c THEN b ELSE c

SamePair(e1, e2) ==
    {e1.particle[1], e1.particle[2]} = {e2.particle[1], e2.particle[2]}

ParticleChecks(o, i) ==
    LET p == o.particles[i + 1]
        valid == -1..(Len(o.particles) - 1)
    IN  {[rank |-> <<3, i, 1>>, bad |-> p.xparticle \notin valid,
          error |-> <<"GayBerneForce: Illegal particle index for xparticle: ", p.xparticle>>],
         [rank |-> <<3, i, 2>>, bad |-> p.yparticle \notin valid,
          error |-> <<"GayBerneForce: Illegal particle index for a yparticle: ", p.yparticle>>],
         [rank |-> <<3, i, 3>>, bad |-> ~(p.sigma >= 0),
          error |-> <<"GayBerneForce: sigma for a particle cannot be negative">>],
         [rank |-> <<3, i, 4>>, bad |-> ~(p.epsilon >= 0),
          error |-> <<"GayBerneForce: epsilon for a particle cannot be negative">>],
         [rank |-> <<3, i, 5>>, bad |-> ~(p.rx > 0 /\ p.ry > 0 /\ p.rz > 0),
          error |-> <<"GayBerneForce: radii for a particle must be positive">>],
         [rank |-> <<3, i, 6>>, bad |-> ~(p.ex > 0 /\ p.ey > 0 /\ p.ez > 0),
          error |-> <<"GayBerneForce: scale factors for a particle must be positive">>]}

ExceptionChecks(o, k) ==
    LET e == o.exceptions[k + 1]
        valid == 0..(Len(o.particles) - 1)
    IN  {[rank |-> <<4, k, 1>>, bad |-> e.particle[1] \notin valid,
          error |-> <<"GayBerneForce: Illegal particle index for an exception: ", e.particle[1]>>],
         [rank |-> <<4, k, 2>>, bad |-> e.particle[2] \notin valid,
          error |-> <<"GayBerneForce: Illegal particle index for an exception: ", e.particle[2]>>],
         [rank |-> <<4, k, 3>>, bad |-> \E j \in 1..k : SamePair(o.exceptions[j], e),
          error |-> <<"GayBerneForce: Multiple exceptions are specified for particles ",
                      e.particle[1], " and ", e.particle[2]>>],
         [rank |-> <<4, k, 4>>, bad |-> ~(e.sigma >= 0),
          error |-> <<"GayBerneForce: sigma for an exception cannot be negative">>],
         [rank |-> <<4, k, 5>>, bad |-> ~(e.epsilon >= 0),
          error |-> <<"GayBerneForce: epsilon for an exception cannot be negative">>]}

CutoffMessage == <<"GayBerneForce: <Messages::cutoffTooLarge>">>

ExceedsHalfBox(o, s) ==
    /\ o.nonbondedMethod = CutoffPeriodic
    /\ 2 * o.cutoffDistance > Min3(s.box[1][1], s.box[2][2], s.box[3][3])

AllChecks(o, s) ==
    {[rank |-> <<1, 0, 0>>, bad |-> Len(o.particles) # s.numParticles,
      error |-> <<"GayBerneForce must have exactly as many particles as the System it belongs to.">>],
     [rank |-> <<2, 0, 0>>,
      bad |-> o.useSwitchingFunction
              /\ ~(0 <= o.switchingDistance /\ o.switchingDistance < o.cutoffDistance),
      error |-> <<"GayBerneForce: Switching distance must satisfy 0 <= r_switch < r_cutoff">>],
     [rank |-> <<5, 0, 0>>, bad |-> ExceedsHalfBox(o, s), error |-> CutoffMessage]}
    \cup UNION {ParticleChecks(o, i) : i \in 0..(Len(o.particles) - 1)}
    \cup UNION {ExceptionChecks(o, k) : k \in 0..(Len(o.exceptions) - 1)}

Violations(o, s) == {c \in AllChecks(o, s) : c.bad}

Before(r1, r2) ==
    \/ r1[1] < r2[1]
    \/ r1[1] = r2[1] /\ r1[2] < r2[2]
    \/ r1[1] = r2[1] /\ r1[2] = r2[2] /\ r1[3] < r2[3]

FirstViolation(o, s) ==
    LET failed == Violations(o, s)
    IN  CHOOSE v \in failed :
            \A w \in failed : w.rank = v.rank \/ Before(v.rank, w.rank)

Accepted == last.op = "initialize" /\ HasEvent("initialize")

(* C5: of the checks a description fails, setup reports the one that comes *)
(* first in the order count, switching, particles by index (x, y, sigma,   *)
(* epsilon, radii, scale factors), exceptions by position (first index,    *)
(* second index, duplicate, sigma, epsilon), cutoff against the box.       *)
(* The descriptions checked include particles with two fields bad at once  *)
(* (any two of the six checks) and exceptions failing two of their checks  *)
(* at once (both indices, an index and a value, duplicate and a value,     *)
(* sigma and epsilon).                                                     *)
C5_FirstViolationReported ==
    (Validated /\ Violations(owner, system) # {}) =>
        /\ last.outcome = "threw"
        /\ last.error = FirstViolation(owner, system).error
        /\ ~HasEvent("initialize")

C5_Witness ==
    /\ last.op = "initialize"
    /\ owner.useSwitchingFunction
    /\ owner.switchingDistance >= owner.cutoffDistance
    /\ \E i \in DOMAIN owner.particles : owner.particles[i].sigma < 0
    /\ last.error = <<"GayBerneForce: Switching distance must satisfy 0 <= r_switch < r_cutoff">>

ExceptionsInRange(o) ==
    \A k \in DOMAIN o.exceptions :
        /\ o.exceptions[k].particle[1] \in 0..(Len(o.particles) - 1)
        /\ o.exceptions[k].particle[2] \in 0..(Len(o.particles) - 1)

ExceptionsDistinct(o) ==
    \A k \in DOMAIN o.exceptions :
        o.exceptions[k].particle[1] # o.exceptions[k].particle[2]

(* C6, as stated: every accepted description has only exceptions whose     *)
(* two indices are in range and distinct.                                  *)
C6_AcceptedExceptionsDistinctInRange ==
    Accepted => (ExceptionsInRange(owner) /\ ExceptionsDistinct(owner))

(* C6, amended: every accepted description has only exceptions whose two   *)
(* indices are both in [0, numParticles); the two need not differ: a       *)
(* description whose only failed check would be that an exception names    *)
(* one particle twice is accepted.                                         *)
C6_AcceptedExceptionsInRange ==
    /\ Accepted => ExceptionsInRange(owner)
    /\ (Validated /\ Violations(owner, system) = {}) => Accepted

C6_Witness ==
    /\ Accepted
    /\ ~ExceptionsDistinct(owner)

(* C7: an exception at position j on the same unordered pair as an earlier *)
(* one, with no earlier check failing, is reported as a duplicate naming   *)
(* the pair as position j gives it; a list without a repeated unordered    *)
(* pair is never reported as a duplicate.                                  *)
C7_UnorderedDuplicates ==
    Validated =>
        /\ \A j \in 1..Len(owner.exceptions) :
              (/\ \E i \in 1..(j - 1) : SamePair(owner.exceptions[i], owner.exceptions[j])
               /\ LET failed == Violations(owner, system)
                  IN  \A v \in failed : ~Before(v.rank, <<4, j - 1, 3>>))
              => /\ last.outcome = "threw"
                 /\ last.error =
                      <<"GayBerneForce: Multiple exceptions are specified for particles ",
                        owner.exceptions[j].particle[1], " and ",
                        owner.exceptions[j].particle[2]>>
        /\ (\A j \in 1..Len(owner.exceptions) : \A i \in 1..(j - 1) :
                ~SamePair(owner.exceptions[i], owner.exceptions[j]))
              => Len(last.error) # 4

C7_Witness ==
    /\ last.op = "initialize"
    /\ Len(owner.exceptions) = 3
    /\ owner.exceptions[1].particle = <<0, 1>>
    /\ owner.exceptions[2].particle = <<1, 1>>
    /\ owner.exceptions[3].particle = <<1, 0>>
    /\ last.error = <<"GayBerneForce: Multiple exceptions are specified for particles ",
                      1, " and ", 0>>

(* C8: with every other check passing, setup fails with the cutoff message *)
(* exactly when the method is CutoffPeriodic and the cutoff is more than   *)
(* half the smallest of box[0].x, box[1].y, box[2].z; otherwise the        *)
(* description is accepted.                                                *)
C8_CutoffAgainstHalfBox ==
    (Validated /\ \A v \in Violations(owner, system) : v.rank[1] = 5) =>
        IF ExceedsHalfBox(owner, system)
        THEN last.outcome = "threw" /\ last.error = CutoffMessage
        ELSE Accepted /\ last.error # CutoffMessage

C8_Witness ==
    /\ last.op = "initialize"
    /\ owner.nonbondedMethod = CutoffPeriodic
    /\ system.box = << <<4, 0, 0>>, <<0, 4, 0>>, <<0, 0, 4>> >>
    /\ owner.cutoffDistance = 3
    /\ last.error = CutoffMessage

(* invariants 1-6 of the description, as documented *)
SatisfiesInvariants(o, s) ==
    LET n == Len(o.particles)
    IN  /\ n = s.numParticles
        /\ o.useSwitchingFunction
              => (0 <= o.switchingDistance /\ o.switchingDistance < o.cutoffDistance)
        /\ \A i \in DOMAIN o.particles :
              LET p == o.particles[i]
              IN  /\ p.sigma >= 0 /\ p.epsilon >= 0
                  /\ p.rx > 0 /\ p.ry > 0 /\ p.rz > 0
                  /\ p.ex > 0 /\ p.ey > 0 /\ p.ez > 0
                  /\ p.xparticle \in -1..(n - 1)
                  /\ p.yparticle \in -1..(n - 1)
        /\ ExceptionsInRange(o)
        /\ ExceptionsDistinct(o)
        /\ \A j \in DOMAIN o.exceptions :
              /\ o.exceptions[j].sigma >= 0 /\ o.exceptions[j].epsilon >= 0
              /\ \A i \in 1..(j - 1) : ~SamePair(o.exceptions[i], o.exceptions[j])
        /\ o.nonbondedMethod = CutoffPeriodic
              => 2 * o.cutoffDistance <= Min3(s.box[1][1], s.box[2][2], s.box[3][3])

(* C10, as stated: setup of a description satisfying invariants 1-6        *)
(* reports no violation, invokes the kernel's initialize once after the    *)
(* checks and ends Bound.                                                  *)
C10_ValidSetupEndsBound ==
    (last.op = "initialize" /\ SatisfiesInvariants(owner, system)) =>
        /\ events = << <<"createKernel", kernel>>, <<"initialize", kernel>> >>
        /\ last.outcome = "returned"
        /\ Bound

(* C10, amended: setup of a description satisfying invariants 1-6 never    *)
(* reports a violation.  When the factory supplies a handle it invokes the *)
(* kernel's initialize exactly once, after the checks; it ends Bound when  *)
(* that call returns, and fails, not Bound, when that call throws.  When   *)
(* the factory fails, setup fails with the factory's error and the         *)
(* kernel's initialize is not invoked.  The kernel's initialize is never   *)
(* invoked for a description that fails a check.                           *)
C10_ValidSetupInitializesKernel ==
    last.op = "initialize" =>
        /\ SatisfiesInvariants(owner, system) =>
              IF last.error = CreateKernelError
              THEN /\ last.outcome = "threw"
                   /\ events = << <<"createKernel", NoKernel>> >>
              ELSE /\ events = << <<"createKernel", kernel>>, <<"initialize", kernel>> >>
                   /\ last.error \in {NoError, KernelError}
                   /\ Bound <=> last.outcome = "returned"
                   /\ ~Bound <=> (last.outcome = "threw" /\ last.error = KernelError)
        /\ HasEvent("initialize") =>
              /\ Violations(owner, system) = {}
              /\ events = << <<"createKernel", kernel>>, <<"initialize", kernel>> >>

C10_Witness ==
    /\ last.op = "initialize"
    /\ SatisfiesInvariants(owner, system)
    /\ Bound
    /\ owner.nonbondedMethod = CutoffPeriodic
    /\ 2 * owner.cutoffDistance = system.box[1][1]
    /\ ~owner.useSwitchingFunction
    /\ owner.switchingDistance = -1
    /\ \E i \in DOMAIN owner.particles :
          owner.particles[i].sigma = 0 /\ owner.particles[i].xparticle = -1

====
